---------------------------- MODULE Spec2Model ----------------------------
(***************************************************************************)
(* A model of the genshin.py data-modelling layer: the Honkai permanent    *)
(* mode models (ELF, OldAbyss, SuperstringAbyss, Signet, RemembranceSigil),*)
(* the teapot normalisation of PartialUserStats, the RecordCard accessors  *)
(* and the battle chronicle client's record-card calls.                    *)
(*                                                                         *)
(* Python values are tagged records [type, val]; text that the code parses *)
(* (icon URLs, data values, rank letters) is a sequence of one-character   *)
(* strings, text that is only compared is a TLA+ string.  The outcome of   *)
(* an evaluation is Ok(v) or Raise(e, a).                                  *)
(***************************************************************************)
EXTENDS Integers, Sequences, FiniteSets, TLC

VARIABLES
    op,        \* the model class last constructed ("none" before any)
    payload,   \* the raw JSON value handed to the constructor
    obj,       \* outcome of the construction: Ok(object) or Raise(..)
    derived,   \* outcome of reading the object's properties, NotRead before
    pc,        \* position of the chronicle client call in flight
    entry,     \* the client method the caller invoked
    requests,  \* number of record-card requests issued by the call in flight
    response,  \* the JSON the record-card request returned
    cards,     \* outcome of get_record_cards
    ret        \* outcome the caller of the client method sees

vars == <<op, payload, obj, derived, pc, entry, requests, response, cards, ret>>

modelVars == <<op, payload, obj, derived>>
clientVars == <<pc, entry, requests, response, cards, ret>>

-----------------------------------------------------------------------------
(* Bounds of the model *)

\* integer codes tried on each side of the documented range of a lookup table
Span == 3
\* longest record-card list in a response
MaxCards == 3
\* largest number of per-realm objects in a teapot payload
MaxRealms == 2
\* RecordCard data lists have 4 .. 4 + ExtraData entries
ExtraData == 1

-----------------------------------------------------------------------------
(* Python values and outcomes *)

None == [type |-> "NoneType", val |-> "None"]
PyInt(n) == [type |-> "int", val |-> n]
PyStr(s) == [type |-> "str", val |-> s]
PyList(l) == [type |-> "list", val |-> l]
PyDict(d) == [type |-> "dict", val |-> d]

Ok(v) == [exc |-> "none", val |-> v]
Raise(e, a) == [exc |-> e, val |-> a]
NotRead == [exc |-> "notread", val |-> None]

\* seq[i] with Python's indexing: 0-based, negative indices count from the end
PyIndex(seq, i) ==
    IF 0 <= i /\ i < Len(seq) THEN Ok(seq[i + 1])
    ELSE IF -Len(seq) <= i /\ i < 0 THEN Ok(seq[Len(seq) + i + 1])
    ELSE Raise("IndexError", None)

\* pydantic turns a ValueError, TypeError or AssertionError raised by a
\* validator into a ValidationError; any other exception propagates as it is
validator(r) ==
    IF r.exc \in {"ValueError", "TypeError", "AssertionError"}
    THEN Raise("ValidationError", None)
    ELSE r

\* ord(c): the code point of a one-character str, a TypeError for anything else
CodePoint == [c \in {"A", "B", "C", "D", "E", "S"} |->
    CASE c = "A" -> 65 [] c = "B" -> 66 [] c = "C" -> 67
      [] c = "D" -> 68 [] c = "E" -> 69 [] c = "S" -> 83]

ord(v) ==
    IF v.type = "str" /\ Len(v.val) = 1
    THEN Ok(CodePoint[v.val[1]])
    ELSE Raise("TypeError", None)

Digits == {"0", "1", "2", "3", "4", "5", "6", "7", "8", "9"}

DigitValue == [c \in Digits |->
    CASE c = "0" -> 0 [] c = "1" -> 1 [] c = "2" -> 2 [] c = "3" -> 3
      [] c = "4" -> 4 [] c = "5" -> 5 [] c = "6" -> 6 [] c = "7" -> 7
      [] c = "8" -> 8 [] c = "9" -> 9]

RECURSIVE Decimal(_)
Decimal(s) ==
    IF s = <<>> THEN 0
    ELSE 10 * Decimal(SubSeq(s, 1, Len(s) - 1)) + DigitValue[s[Len(s)]]

\* int(s) of a str: its decimal value, a ValueError when s is not a numeral
int(s) ==
    IF Len(s) > 0 /\ \A i \in 1..Len(s) : s[i] \in Digits
    THEN Ok(Decimal(s))
    ELSE Raise("ValueError", None)

-----------------------------------------------------------------------------
(* ELF *)

\* ELF.__fix_rank: ["A", "S"][rarity - 3]
__fix_rank(rarity) == PyIndex(<<"A", "S">>, rarity - 3)

\* ELF(**data): the pre-validator decodes rarity, the other fields are kept
ELF(data) ==
    LET rarity == validator(__fix_rank(data.rarity))
    IN  IF rarity.exc # "none" THEN rarity
        ELSE Ok([id |-> data.id, name |-> data.name, icon |-> data.avatar,
                 rarity |-> rarity.val, upgrade_level |-> data.star])

RarityCodes == (3 - Span)..(4 + Span)

ELFPayloads ==
    {[id |-> 1, name |-> "Jingwei's Wings", avatar |-> "elf_1.png",
      rarity |-> r, star |-> s] : r \in RarityCodes, s \in 1..2}

ConstructELF ==
    /\ op = "ELF"
    /\ obj = NotRead
    /\ obj' = ELF(payload)
    /\ UNCHANGED <<op, payload, derived>>
    /\ UNCHANGED clientVars

-----------------------------------------------------------------------------
(* Signet *)

SignetNames ==
    <<"Deliverance", "Gold", "Decimation", "Bodhi", "Setsuna", "Infinity",
      "Vicissitude", "[][]">>    \* "[][]" stands for the two black squares

\* Signet.name: the label table indexed with self.id - 1
Signet_name(self) == PyIndex(SignetNames, self.id - 1)

\* Signet(**data): id, icon and number are stored as given
Signet(data) == Ok([id |-> data.id, icon |-> data.icon, number |-> data.number])

SignetIds == (1 - Len(SignetNames) - Span)..(Len(SignetNames) + Span)

SignetPayloads ==
    {[id |-> i, icon |-> "signet@2x.png", number |-> 1] : i \in SignetIds}

ConstructSignet ==
    /\ op = "Signet"
    /\ obj = NotRead
    /\ obj' = Signet(payload)
    /\ UNCHANGED <<op, payload, derived>>
    /\ UNCHANGED clientVars

ReadSignet ==
    /\ op = "Signet"
    /\ obj.exc = "none"
    /\ derived = NotRead
    /\ derived' = Ok([name |-> Signet_name(obj.val)])
    /\ UNCHANGED <<op, payload, obj>>
    /\ UNCHANGED clientVars

-----------------------------------------------------------------------------
(* RemembranceSigil *)

SigilTable ==
    << <<"The MOTH Insignia", 1>>, <<"Home Lost", 1>>, <<"False Hope", 1>>,
       <<"Tin Flask", 1>>, <<"Ruined Legacy", 1>>, <<"Burden", 2>>,
       <<"Gold Goblet", 2>>, <<"Mad King's Mask", 2>>,
       <<"Light as a Bodhi Leaf", 2>>, <<"Forget-Me-Not", 2>>,
       <<"Forbidden Seed", 2>>, <<"Memory", 2>>, <<"Crystal Rose", 2>>,
       <<"Abandoned", 3>>, <<"Good Old Days", 3>>, <<"Shattered Shackles", 3>>,
       <<"Heavy as a Million Lives", 3>>, <<"Stained Sakura", 3>>,
       <<"The First Scale", 3>>, <<"Resolve", 3>>, <<"Thorny Crown", 3>> >>

\* the dict: int keys 119301 .. 119321, values (name, rarity)
REMEMBRANCE_SIGILS ==
    [k \in 119301..(119300 + Len(SigilTable)) |-> SigilTable[k - 119300]]

\* dict.get(key): a key is found only if it equals a stored key, and a str
\* never equals an int
dict_get(table, key) ==
    IF key.type = "int" /\ key.val \in DOMAIN table
    THEN [type |-> "tuple", val |-> table[key.val]]
    ELSE None

\* re.match(r".*/(\d+).png", icon): the places <<i, j>> where icon[i] is the
\* "/", icon[i+1..j] the digits, then any one character, then "png"
SigilMatches(icon) ==
    {m \in (1..Len(icon)) \X (1..Len(icon)) :
        /\ icon[m[1]] = "/"
        /\ m[1] < m[2]
        /\ \A k \in (m[1] + 1)..m[2] : icon[k] \in Digits
        /\ m[2] + 4 <= Len(icon)
        /\ icon[m[2] + 2] = "p"
        /\ icon[m[2] + 3] = "n"
        /\ icon[m[2] + 4] = "g"}

\* both quantifiers are greedy: the last "/" that works, then the longest run
SigilMatch(icon) ==
    LET ms == SigilMatches(icon)
    IN  CHOOSE m \in ms :
            \A n \in ms : n[1] < m[1] \/ (n[1] = m[1] /\ n[2] <= m[2])

\* RemembranceSigil.id: match[1] if match else 0
Sigil_id(self) ==
    IF SigilMatches(self.icon) # {}
    THEN LET m == SigilMatch(self.icon)
         IN  PyStr(SubSeq(self.icon, m[1] + 1, m[2]))
    ELSE PyInt(0)

\* RemembranceSigil.name: sigil[0] if sigil else "Unknown"
Sigil_name(self) ==
    LET sigil == dict_get(REMEMBRANCE_SIGILS, Sigil_id(self))
    IN  IF sigil.type # "NoneType" THEN PyStr(sigil.val[1]) ELSE PyStr("Unknown")

\* RemembranceSigil.rarity: sigil[1] if sigil else "Unknown"
Sigil_rarity(self) ==
    LET sigil == dict_get(REMEMBRANCE_SIGILS, Sigil_id(self))
    IN  IF sigil.type # "NoneType" THEN PyInt(sigil.val[2]) ELSE PyStr("Unknown")

\* ElysianRealm.__extend_sigil: RemembranceSigil(icon=icon_url)
__extend_sigil(icon_url) == Ok([icon |-> icon_url])

\* icon URLs ".../<digits>.png" for a listed or unlisted id
SigilUrl(digits) == <<"e", "r", "/">> \o digits \o <<".", "p", "n", "g">>

SigilDigits ==
    {<<"1", "1", "9", "3", "0", "1">>, <<"1", "1", "9", "3", "0", "6">>,
     <<"1", "1", "9", "3", "2", "1">>, <<"1", "1", "9", "3", "2", "2">>,
     <<"7">>}

\* icon URLs without a numeric file name
PlainUrls ==
    {<<"n", "o", "p", "e", ".", "p", "n", "g">>,
     <<"e", "r", "/", "n", "o", "p", "e", ".", "p", "n", "g">>,
     <<>>}

SigilUrls ==
    {SigilUrl(d) : d \in SigilDigits}
        \cup PlainUrls
        \cup {<<"1", "/">> \o SigilUrl(<<"1", "1", "9", "3", "0", "2">>),
              <<"e", "r", "/", "1", "1", "9", "3", "0", "3", "p", "n", "g">>}

ConstructSigil ==
    /\ op = "RemembranceSigil"
    /\ obj = NotRead
    /\ obj' = __extend_sigil(payload)
    /\ UNCHANGED <<op, payload, derived>>
    /\ UNCHANGED clientVars

ReadSigil ==
    /\ op = "RemembranceSigil"
    /\ obj.exc = "none"
    /\ derived = NotRead
    /\ derived' = Ok([id |-> Sigil_id(obj.val), name |-> Sigil_name(obj.val),
                      rarity |-> Sigil_rarity(obj.val)])
    /\ UNCHANGED <<op, payload, obj>>
    /\ UNCHANGED clientVars

-----------------------------------------------------------------------------
(* Abyss *)

AbyssRanksTier4 ==
    <<"Forbidden", "Sinful I", "Sinful II", "Sinful III", "Agony I",
      "Agony II", "Agony III", "Redlotus", "Nirvana">>

AbyssRanks == <<"Forbidden", "Sinful", "Agony", "Redlotus">>

\* _prettify_abyss_rank(rank, tier)
_prettify_abyss_rank(rank, tier) ==
    IF tier = 4
    THEN PyIndex(AbyssRanksTier4, rank - 1)
    ELSE PyIndex(AbyssRanks, rank - 1)

\* _prettify_competitive_tier(tier)
_prettify_competitive_tier(tier) ==
    PyIndex(<<"Basic", "Elites", "Masters", "Exalted">>, tier - 1)

\* OldAbyss.__parse_type: the dict lookup of the lazy alias
__parse_type(type_) ==
    CASE type_ = "OW" -> Ok("Dirac Sea")
      [] type_ = "Quantum" -> Ok("Q-Singularis")
      [] OTHER -> Raise("KeyError", None)

\* OldAbyss.__normalize_level: 69 - ord(rank)
__normalize_level(rank) ==
    LET code == ord(rank)
    IN  IF code.exc # "none" THEN code ELSE Ok(69 - code.val)

\* OldAbyss(**data): "area" is raw_tier, "level" is raw_rank through the
\* pre-validator, "type" through its validator
OldAbyss(data) ==
    LET type == validator(__parse_type(data.type))
        raw_rank == validator(__normalize_level(data.level))
    IN  IF type.exc # "none" THEN type
        ELSE IF raw_rank.exc # "none" THEN raw_rank
        ELSE Ok([raw_tier |-> data.area, score |-> data.score,
                 type |-> type.val, raw_rank |-> raw_rank.val])

\* OldAbyss.rank
OldAbyss_rank(self) == _prettify_abyss_rank(self.raw_rank, self.raw_tier)

\* BaseAbyss.tier
BaseAbyss_tier(self) == _prettify_competitive_tier(self.raw_tier)

\* the rank encodings of the two endpoints: letters, and integers 1 .. 5
RankLetters == {"D", "C", "B", "A"}
MaxWireRank == 5
WireRanks ==
    {PyStr(<<c>>) : c \in RankLetters \cup {"E", "S"}}
        \cup {PyInt(n) : n \in 1..MaxWireRank}

Tiers == 1..4

OldAbyssPayloads ==
    {[area |-> t, score |-> 100, type |-> ty, level |-> r] :
        t \in Tiers, ty \in {"OW", "Quantum"}, r \in WireRanks}

ConstructOldAbyss ==
    /\ op = "OldAbyss"
    /\ obj = NotRead
    /\ obj' = OldAbyss(payload)
    /\ UNCHANGED <<op, payload, derived>>
    /\ UNCHANGED clientVars

ReadOldAbyss ==
    /\ op = "OldAbyss"
    /\ obj.exc = "none"
    /\ derived = NotRead
    /\ derived' = Ok([rank |-> OldAbyss_rank(obj.val),
                      tier |-> BaseAbyss_tier(obj.val)])
    /\ UNCHANGED <<op, payload, obj>>
    /\ UNCHANGED clientVars

\* SuperstringAbyss(**data): raw_tier is redeclared "raw_tier: int = 4" with
\* no galias, so "area" is an unknown key (ignored) and the default 4 applies
\* only when the payload has no "raw_tier" key
SuperstringAbyss(data) ==
    Ok([raw_tier |-> IF "raw_tier" \in DOMAIN data THEN data.raw_tier ELSE 4,
        score |-> data.score,
        placement |-> data.rank,
        trophies_gained |-> data.settled_cup_number,
        end_trophies |-> data.cup_number,
        raw_start_rank |-> data.level,
        raw_end_rank |-> data.settled_level])

\* SuperstringAbyss.start_rank
start_rank(self) == _prettify_abyss_rank(self.raw_start_rank, self.raw_tier)

\* SuperstringAbyss.end_rank
end_rank(self) == _prettify_abyss_rank(self.raw_end_rank, self.raw_tier)

\* SuperstringAbyss.start_trophies
start_trophies(self) == self.end_trophies - self.trophies_gained

\* the keys a payload may carry besides the ones the endpoint returns
TierKeys == {"area", "raw_tier"}

SuperstringRanks == 1..Len(AbyssRanksTier4)

SuperstringPayloads ==
    {[score |-> 100, rank |-> 1, settled_cup_number |-> 20,
      cup_number |-> 120, level |-> a, settled_level |-> b] @@ extra :
        a \in SuperstringRanks, b \in SuperstringRanks,
        extra \in UNION {[K -> Tiers] : K \in SUBSET TierKeys}}

ConstructSuperstringAbyss ==
    /\ op = "SuperstringAbyss"
    /\ obj = NotRead
    /\ obj' = SuperstringAbyss(payload)
    /\ UNCHANGED <<op, payload, derived>>
    /\ UNCHANGED clientVars

ReadSuperstringAbyss ==
    /\ op = "SuperstringAbyss"
    /\ obj.exc = "none"
    /\ derived = NotRead
    /\ derived' = Ok([start_rank |-> start_rank(obj.val),
                      end_rank |-> end_rank(obj.val),
                      start_trophies |-> start_trophies(obj.val),
                      tier |-> BaseAbyss_tier(obj.val)])
    /\ UNCHANGED <<op, payload, obj>>
    /\ UNCHANGED clientVars

-----------------------------------------------------------------------------
(* Teapot *)

TeapotScalars ==
    {"level", "visit_num", "comfort_num", "item_num", "comfort_level_name",
     "comfort_level_icon"}

\* TeapotRealm(**data): name and icon are required, other keys are ignored
TeapotRealm(data) ==
    IF {"name", "icon"} \subseteq DOMAIN data
    THEN Ok([name |-> data.name, icon |-> data.icon])
    ELSE Raise("ValidationError", None)

\* Teapot(**data): realms and the six scalar fields are required
Teapot(data) ==
    IF /\ TeapotScalars \cup {"realms"} \subseteq DOMAIN data
       /\ \A i \in 1..Len(data.realms) : TeapotRealm(data.realms[i]).exc = "none"
    THEN Ok([realms |-> [i \in 1..Len(data.realms) |->
                            TeapotRealm(data.realms[i]).val],
             level |-> data.level,
             visitors |-> data.visit_num,
             comfort |-> data.comfort_num,
             items |-> data.item_num,
             comfort_name |-> data.comfort_level_name,
             comfort_icon |-> data.comfort_level_icon])
    ELSE Raise("ValidationError", None)

\* bool(v) is False for None, an empty list and an empty dict
falsy(v) ==
    \/ v.type = "NoneType"
    \/ v.type = "list" /\ v.val = <<>>
    \/ v.type = "dict" /\ DOMAIN v.val = {}

\* __format_teapot giving a dict an empty "realms" when it has none
__format_teapot_default_realms(v) ==
    IF falsy(v) THEN None
    ELSE IF v.type = "dict"
    THEN PyDict([k \in DOMAIN v.val \cup {"realms"} |->
                    IF k \in DOMAIN v.val THEN v.val[k] ELSE <<>>])
    ELSE PyDict([k \in DOMAIN v.val[1] \cup {"realms"} |->
                    IF k = "realms" THEN v.val ELSE v.val[1][k]])

\* PartialUserStats.__format_teapot
__format_teapot(v) ==
    IF falsy(v) THEN None
    ELSE IF v.type = "dict" THEN v
    ELSE PyDict([k \in DOMAIN v.val[1] \cup {"realms"} |->
                    IF k = "realms" THEN v.val ELSE v.val[1][k]])

\* the teapot field of PartialUserStats(**data): Optional[Teapot] fed by the
\* pre-validator
PartialUserStats_teapot(homes) ==
    LET v == __format_teapot(homes)
    IN  IF v.type = "NoneType" THEN Ok(None) ELSE Teapot(v.val)

RealmObjects ==
    {[name |-> n, icon |-> "realm.png", level |-> l, visit_num |-> 5,
      comfort_num |-> 100, item_num |-> 10, comfort_level_name |-> "Cozy",
      comfort_level_icon |-> "cozy.png"] :
        n \in {"Floating Abode", "Emerald Peak"}, l \in {1, 2}}

RealmLists == UNION {[1..n -> RealmObjects] : n \in 0..MaxRealms}

\* a single teapot object without a "realms" key ...
BareTeapots ==
    {[level |-> l, visit_num |-> 5, comfort_num |-> 100, item_num |-> 10,
      comfort_level_name |-> "Cozy", comfort_level_icon |-> "cozy.png"] :
        l \in {1, 2}}

\* ... and with one
FullTeapots == {d @@ [realms |-> r] : d \in BareTeapots, r \in RealmLists}

TeapotPayloads ==
    {None}
        \cup {PyDict(d) : d \in BareTeapots \cup FullTeapots}
        \cup {PyList(l) : l \in RealmLists}

ConstructTeapot ==
    /\ op = "Teapot"
    /\ obj = NotRead
    /\ obj' = PartialUserStats_teapot(payload)
    /\ UNCHANGED <<op, payload, derived>>
    /\ UNCHANGED clientVars

-----------------------------------------------------------------------------
(* RecordCard *)

\* RecordCard(**data): the aliased fields are renamed, data is kept in order
RecordCard(data) ==
    Ok([uid |-> data.game_role_id, level |-> data.level,
        nickname |-> data.nickname, server |-> data.region,
        server_name |-> data.region_name, data |-> data.data,
        privacy_settings |-> data.data_switches,
        background_image |-> data.background_image,
        has_uid |-> data.has_role, public |-> data.is_public])

\* RecordCard.days_active
days_active(self) == int(self.data[1].value)

\* characters reading the entry before its own
characters_previous_entry(self) == int(self.data[1].value)

\* RecordCard.characters
characters(self) == int(self.data[2].value)

\* RecordCard.achievements
achievements(self) == int(self.data[3].value)

\* RecordCard.spiral_abyss
spiral_abyss(self) == Ok(self.data[4].value)

DataEntries ==
    {[name |-> "Days Active", value |-> <<"7">>],
     [name |-> "Characters", value |-> <<"1", "2">>],
     [name |-> "Achievements", value |-> <<"3", "4", "5">>],
     [name |-> "Spiral Abyss", value |-> <<"1", "2", "-", "3">>],
     [name |-> "Spiral Abyss", value |-> <<"7">>]}

DataLists == UNION {[1..n -> DataEntries] : n \in 4..(4 + ExtraData)}

CardPayload(uid, data) ==
    [game_role_id |-> uid, level |-> 55, nickname |-> "Traveler",
     region |-> "os_euro", region_name |-> "Europe", data |-> data,
     data_switches |-> <<>>, background_image |-> "bg.png",
     has_role |-> TRUE, is_public |-> TRUE]

RecordCardPayloads == {CardPayload(1, d) : d \in DataLists}

ConstructRecordCard ==
    /\ op = "RecordCard"
    /\ obj = NotRead
    /\ obj' = RecordCard(payload)
    /\ UNCHANGED <<op, payload, derived>>
    /\ UNCHANGED clientVars

ReadRecordCard ==
    /\ op = "RecordCard"
    /\ obj.exc = "none"
    /\ derived = NotRead
    /\ derived' = Ok([days_active |-> days_active(obj.val),
                      characters |-> characters(obj.val),
                      achievements |-> achievements(obj.val),
                      spiral_abyss |-> spiral_abyss(obj.val)])
    /\ UNCHANGED <<op, payload, obj>>
    /\ UNCHANGED clientVars

-----------------------------------------------------------------------------
(* Battle chronicle client *)

\* the retcode get_record_cards puts in DataNotPublic
RETCODE_NOT_PUBLIC == 10102

ClientIdle ==
    /\ pc = "idle"
    /\ entry = "none"
    /\ requests = 0
    /\ response = None
    /\ cards = NotRead
    /\ ret = NotRead

\* the record cards of a response, as the endpoint sends them
CardUids == 1..3

CardData ==
    [i \in 1..4 |->
        CASE i = 1 -> [name |-> "Days Active", value |-> <<"7">>]
          [] i = 2 -> [name |-> "Characters", value |-> <<"1", "2">>]
          [] i = 3 -> [name |-> "Achievements", value |-> <<"3", "4", "5">>]
          [] i = 4 -> [name |-> "Spiral Abyss", value |-> <<"1", "2", "-", "3">>]]

ResponseCards == {CardPayload(u, CardData) : u \in CardUids}

Responses ==
    {PyDict([list |-> l]) :
        l \in UNION {[1..n -> ResponseCards] : n \in 0..MaxCards}}

\* get_record_cards building the cards last to first
get_record_cards_reversed(data) ==
    LET list == data.val.list
    IN  IF list = <<>>
        THEN Raise("DataNotPublic", [retcode |-> RETCODE_NOT_PUBLIC])
        ELSE Ok([i \in 1..Len(list) |->
                    RecordCard(list[Len(list) + 1 - i]).val])

\* get_record_cards without the check for an empty list
get_record_cards_unchecked(data) ==
    LET list == data.val.list
    IN  Ok([i \in 1..Len(list) |-> RecordCard(list[i]).val])

\* get_record_cards after its request returned data: cards = data["list"],
\* DataNotPublic when it is empty, else one RecordCard per card
get_record_cards(data) ==
    LET list == data.val.list
    IN  IF list = <<>>
        THEN Raise("DataNotPublic", [retcode |-> RETCODE_NOT_PUBLIC])
        ELSE Ok([i \in 1..Len(list) |-> RecordCard(list[i]).val])

\* get_record_card once get_record_cards is over: its exception propagates,
\* else cards[0]
get_record_card(result) ==
    IF result.exc # "none" THEN result ELSE PyIndex(result.val, 0)

\* a caller invokes get_record_cards, which issues its request and awaits it
Call_get_record_cards ==
    /\ op = "client"
    /\ pc = "idle"
    /\ entry' = "get_record_cards"
    /\ requests' = requests + 1
    /\ pc' = "awaiting"
    /\ UNCHANGED <<response, cards, ret>>
    /\ UNCHANGED modelVars

\* a caller invokes the deprecated get_record_card, which calls
\* get_record_cards, which issues its request and awaits it
Call_get_record_card ==
    /\ op = "client"
    /\ pc = "idle"
    /\ entry' = "get_record_card"
    /\ requests' = requests + 1
    /\ pc' = "awaiting"
    /\ UNCHANGED <<response, cards, ret>>
    /\ UNCHANGED modelVars

\* the HTTP collaborator answers the request
Respond ==
    /\ pc = "awaiting"
    /\ \E data \in Responses : response' = data
    /\ pc' = "received"
    /\ UNCHANGED <<entry, requests, cards, ret>>
    /\ UNCHANGED modelVars

\* get_record_cards resumes and finishes; the caller sees its outcome
Resume_get_record_cards ==
    /\ pc = "received"
    /\ entry = "get_record_cards"
    /\ cards' = get_record_cards(response)
    /\ ret' = cards'
    /\ pc' = "done"
    /\ UNCHANGED <<entry, requests, response>>
    /\ UNCHANGED modelVars

\* get_record_cards resumes and finishes inside get_record_card, which then
\* returns cards[0]
Resume_get_record_card ==
    /\ pc = "received"
    /\ entry = "get_record_card"
    /\ cards' = get_record_cards(response)
    /\ ret' = get_record_card(cards')
    /\ pc' = "done"
    /\ UNCHANGED <<entry, requests, response>>
    /\ UNCHANGED modelVars

-----------------------------------------------------------------------------
(* The specification *)

\* the payloads each constructor is tried on
Payloads(o) ==
    CASE o = "ELF" -> ELFPayloads
      [] o = "Signet" -> SignetPayloads
      [] o = "RemembranceSigil" -> SigilUrls
      [] o = "OldAbyss" -> OldAbyssPayloads
      [] o = "SuperstringAbyss" -> SuperstringPayloads
      [] o = "Teapot" -> TeapotPayloads
      [] o = "RecordCard" -> RecordCardPayloads
      [] o = "client" -> {None}

Ops ==
    {"ELF", "Signet", "RemembranceSigil", "OldAbyss", "SuperstringAbyss",
     "Teapot", "RecordCard", "client"}

\* one payload waits for its constructor, or a client waits for a call
Init ==
    /\ op \in Ops
    /\ payload \in Payloads(op)
    /\ obj = NotRead
    /\ derived = NotRead
    /\ ClientIdle

Next ==
    \/ ConstructELF
    \/ ConstructSignet
    \/ ReadSignet
    \/ ConstructSigil
    \/ ReadSigil
    \/ ConstructOldAbyss
    \/ ReadOldAbyss
    \/ ConstructSuperstringAbyss
    \/ ReadSuperstringAbyss
    \/ ConstructTeapot
    \/ ConstructRecordCard
    \/ ReadRecordCard
    \/ Call_get_record_cards
    \/ Call_get_record_card
    \/ Respond
    \/ Resume_get_record_cards
    \/ Resume_get_record_card

Spec == Init /\ [][Next]_vars

-----------------------------------------------------------------------------
(* Properties *)

\* C1: get_record_cards raises DataNotPublic with retcode 10102 when the
\* response's "list" is empty, and otherwise returns exactly one RecordCard
\* per element of "list", in the same order.
C1_RecordCards ==
    (pc = "done" /\ entry = "get_record_cards") =>
        LET list == response.val.list
        IN  IF list = <<>>
            THEN /\ ret.exc = "DataNotPublic"
                 /\ ret.val = [retcode |-> 10102]
            ELSE /\ ret.exc = "none"
                 /\ Len(ret.val) = Len(list)
                 /\ \A i \in 1..Len(list) :
                        ret.val[i].uid = list[i].game_role_id

\* a finished get_record_cards call on a list of several different cards
C1_Witness ==
    /\ pc = "done"
    /\ entry = "get_record_cards"
    /\ ret.exc = "none"
    /\ Len(response.val.list) >= 2
    /\ response.val.list[1].game_role_id # response.val.list[2].game_role_id

LetterRank ==
    [c \in RankLetters |->
        CASE c = "D" -> 1 [] c = "C" -> 2 [] c = "B" -> 3 [] c = "A" -> 4]

\* C3: OldAbyss raw_rank normalisation accepts both wire encodings: a letter
\* D, C, B, A becomes 1, 2, 3, 4 and a rank that is already an integer passes
\* through unchanged.
C3_RankNormalized ==
    (op = "OldAbyss" /\ obj.exc # "notread") =>
        LET rank == payload.level
        IN  /\ (rank.type = "str" /\ rank.val[1] \in RankLetters) =>
                    /\ obj.exc = "none"
                    /\ obj.val.raw_rank = LetterRank[rank.val[1]]
            /\ rank.type = "int" =>
                    /\ obj.exc = "none"
                    /\ obj.val.raw_rank = rank.val

\* C4: an icon URL ending in <id>.png with <id> a key of REMEMBRANCE_SIGILS
\* decodes to that id and the table's name and rarity; an icon URL without a
\* numeric file name decodes to id 0 and name "Unknown".
C4_SigilDecoded ==
    (op = "RemembranceSigil" /\ derived.exc = "none") =>
        /\ \A d \in SigilDigits :
            (payload = SigilUrl(d) /\ Decimal(d) \in DOMAIN REMEMBRANCE_SIGILS) =>
                /\ derived.val.id = PyStr(d)
                /\ derived.val.name = PyStr(REMEMBRANCE_SIGILS[Decimal(d)][1])
                /\ derived.val.rarity = PyInt(REMEMBRANCE_SIGILS[Decimal(d)][2])
        /\ payload \in PlainUrls =>
                /\ derived.val.id = PyInt(0)
                /\ derived.val.name = PyStr("Unknown")

\* C5: ELF rarity 3 decodes to "A" and 4 to "S"; with any other integer the
\* construction fails and no ELF is produced.
C5_RarityDecoded ==
    (op = "ELF" /\ obj.exc # "notread") =>
        CASE payload.rarity = 3 -> obj.exc = "none" /\ obj.val.rarity = "A"
          [] payload.rarity = 4 -> obj.exc = "none" /\ obj.val.rarity = "S"
          [] OTHER -> obj.exc # "none"

\* C6: Signet.name is the id-th label for an id in 1..8, and a failure that
\* yields none of the labels for any other id.
C6_SignetName ==
    (op = "Signet" /\ derived.exc = "none") =>
        IF payload.id \in 1..8
        THEN derived.val.name = Ok(SignetNames[payload.id])
        ELSE derived.val.name.exc # "none"

\* C7: every constructed SuperstringAbyss has raw_tier == 4 whatever the
\* payload holds, so start_rank and end_rank are read from the nine-entry
\* tier-4 table.
C7_TierFixed ==
    (op = "SuperstringAbyss" /\ obj.exc = "none") =>
        /\ obj.val.raw_tier = 4
        /\ derived.exc = "none" =>
            /\ derived.val.start_rank = Ok(AbyssRanksTier4[payload.level])
            /\ derived.val.end_rank = Ok(AbyssRanksTier4[payload.settled_level])

\* what int() gives for the data values of the model
NumeralValue(value) ==
    CASE value = <<"7">> -> Ok(7)
      [] value = <<"1", "2">> -> Ok(12)
      [] value = <<"3", "4", "5">> -> Ok(345)
      [] OTHER -> Raise("ValueError", None)

\* C8: on a RecordCard with at least 4 data entries the accessors read fixed
\* positions, days_active, characters, achievements = int of the values of
\* entries 0, 1, 2 and spiral_abyss = the value of entry 3, whatever the
\* entries' names, and reading them leaves data as it was constructed.
C8_Accessors ==
    (op = "RecordCard" /\ derived.exc = "none") =>
        LET data == payload.data
        IN  /\ Len(data) >= 4
            /\ derived.val.days_active = NumeralValue(data[1].value)
            /\ derived.val.characters = NumeralValue(data[2].value)
            /\ derived.val.achievements = NumeralValue(data[3].value)
            /\ derived.val.spiral_abyss = Ok(data[4].value)
            /\ obj.val.data = data

\* the accessors were read on a card whose entries are not in the usual order
C8_Witness ==
    /\ op = "RecordCard"
    /\ derived.exc = "none"
    /\ payload.data[1].name = "Spiral Abyss"
    /\ payload.data[2].name = "Achievements"
    /\ payload.data[4].name = "Days Active"
    /\ derived.val.days_active = Ok(7)
    /\ derived.val.characters = Ok(345)

\* C9: get_record_card issues exactly one get_record_cards request and returns
\* the first card of its result; on an empty list the caller sees the
\* DataNotPublic of get_record_cards, never an IndexError from cards[0].
C9_RecordCard ==
    /\ (entry = "get_record_card" /\ pc # "idle") => requests = 1
    /\ (entry = "get_record_card" /\ pc = "done") =>
        /\ ret.exc # "IndexError"
        /\ IF response.val.list = <<>>
           THEN /\ ret.exc = "DataNotPublic"
                /\ ret.val = [retcode |-> 10102]
                /\ cards = ret
           ELSE /\ ret.exc = "none"
                /\ cards.exc = "none"
                /\ ret.val = cards.val[1]
                /\ ret.val.uid = response.val.list[1].game_role_id

\* a finished get_record_card call whose response held no card
C9_Witness ==
    /\ entry = "get_record_card"
    /\ pc = "done"
    /\ response.val.list = <<>>
    /\ ret.exc = "DataNotPublic"

\* C10: OldAbyss.rank is defined for every documented wire rank (letters
\* D, C, B, A and integers 1..5): the object is constructed and rank is the
\* label at position raw_rank - 1 of the four-entry table for tiers 1..3 and
\* of the nine-entry table for tier 4.
C10_RankDefined ==
    LET rank == payload.level
        documented ==
            \/ rank.type = "str" /\ rank.val[1] \in RankLetters
            \/ rank.type = "int" /\ rank.val \in 1..MaxWireRank
        raw_rank ==
            IF rank.type = "str" THEN LetterRank[rank.val[1]] ELSE rank.val
        table == IF payload.area = 4 THEN AbyssRanksTier4 ELSE AbyssRanks
    IN  (op = "OldAbyss" /\ documented) =>
            /\ obj.exc # "notread" => obj.exc = "none"
            /\ derived.exc = "none" =>
                /\ raw_rank \in DOMAIN table
                /\ derived.val.rank = Ok(table[raw_rank])

=============================================================================
